---- MODULE Spec2Model ----
(***************************************************************************)
(* Model of the project-item pipeline of this repository:                  *)
(*   src/fetch_github_project_items.py  the paginated ingestion run        *)
(*   src/dashboard.py                   the metrics pass over the CSV      *)
(*                                                                         *)
(* Python values are modelled as follows.                                  *)
(*   str        a sequence of one-character strings                        *)
(*   dict       a function from key strings to values (DOMAIN = its keys)  *)
(*   None/NaN   the empty sequence; a value that may be None is wrapped:   *)
(*              Some(v) = <<v>>                                            *)
(*   timestamp  an integer number of hours since an epoch                  *)
(***************************************************************************)
EXTENDS Integers, Sequences, FiniteSets, TLC

VARIABLES
    pc,               \* position of main() in fetch_github_project_items.py
    project_id,       \* main: project_id
    cursor,           \* get_all_project_items: cursor
    items,            \* get_all_project_items: items (the local list)
    sent,             \* the variables of every items query posted so far
    received,         \* the HTTP responses to them, in order
    result,           \* the value get_all_project_items returned to main
    csv,              \* the CSV file main wrote
    dpc,              \* position of the dashboard script
    df,               \* dashboard: df
    start_date,       \* dashboard: start_date
    end_date,         \* dashboard: end_date
    filtered_df,      \* dashboard: filtered_df
    total_items,      \* dashboard: total_items
    completed_items,  \* dashboard: completed_items
    completion_rate,  \* dashboard: completion_rate
    assignee_status,  \* dashboard: assignee_status
    pivot,            \* dashboard: pivot
    now,              \* dashboard: now
    stale,            \* dashboard: stale
    recently_closed,  \* dashboard: recently_closed
    trend_df          \* dashboard: trend_df

fetchVars == <<pc, project_id, cursor, items, sent, received, result, csv>>
dashVars == <<dpc, df, start_date, end_date, filtered_df, total_items,
              completed_items, completion_rate, assignee_status, pivot, now,
              stale, recently_closed, trend_df>>
vars == <<fetchVars, dashVars>>

(***************************************************************************)
(* Bounds of the model                                                     *)
(***************************************************************************)
MaxPages == 3
MaxPageSize == 2
MaxRows == 3

(***************************************************************************)
(* Python values                                                           *)
(***************************************************************************)
None == <<>>
Some(v) == <<v>>
EmptyDict == <<>>
EmptyStr == <<>>

\* d.get(k): None when the key is absent
Get(d, k) == IF k \in DOMAIN d THEN Some(d[k]) ELSE None
\* d.get(k, default)
GetD(d, k, default) == IF k \in DOMAIN d THEN d[k] ELSE default

\* str.lower() over the characters the model uses
LowerChar(c) ==
    CASE c = "S" -> "s" [] c = "T" -> "t" [] c = "A" -> "a" [] c = "U" -> "u"
      [] c = "D" -> "d" [] c = "C" -> "c" [] c = "N" -> "n" [] c = "O" -> "o"
      [] c = "E" -> "e" [] c = "L" -> "l" [] c = "P" -> "p"
      [] OTHER -> c
Lower(s) == [i \in DOMAIN s |-> LowerChar(s[i])]

RECURSIVE Join(_, _)
\* sep.join(parts)
Join(sep, parts) ==
    IF parts = <<>> THEN EmptyStr
    ELSE IF Len(parts) = 1 THEN parts[1]
    ELSE parts[1] \o sep \o Join(sep, Tail(parts))

IsSpace(c) == c \in {" ", "\t", "\n"}

RECURSIVE LStrip(_)
LStrip(s) == IF s # <<>> /\ IsSpace(s[1]) THEN LStrip(Tail(s)) ELSE s
RECURSIVE RStrip(_)
RStrip(s) ==
    IF s # <<>> /\ IsSpace(s[Len(s)]) THEN RStrip(SubSeq(s, 1, Len(s) - 1)) ELSE s
\* str.strip()
Strip(s) == RStrip(LStrip(s))

RECURSIVE SplitFrom(_, _, _)
\* the pieces of s after position i, cur being the piece in progress
SplitFrom(s, i, cur) ==
    IF i > Len(s) THEN <<cur>>
    ELSE IF s[i] = "," THEN <<cur>> \o SplitFrom(s, i + 1, <<>>)
    ELSE SplitFrom(s, i + 1, Append(cur, s[i]))
\* s.split(",")
Split(s) == SplitFrom(s, 1, <<>>)

(***************************************************************************)
(* String literals of the source                                           *)
(***************************************************************************)
StatusName == <<"s", "t", "a", "t", "u", "s">>
NoTitle == <<"(", "N", "o", " ", "t", "i", "t", "l", "e", ")">>
CommaSpace == <<",", " ">>
Done == <<"D", "o", "n", "e">>
Closed == <<"C", "l", "o", "s", "e", "d">>
NanStr == <<"n", "a", "n">>

(***************************************************************************)
(* Item Normalizer: the body of the loop over a page's nodes               *)
(***************************************************************************)
Login(a) == a["login"]
LabelName(l) == l["name"]

\* content.get(key, {}).get("nodes", [])
NodesUnder(content, key) == GetD(GetD(content, key, EmptyDict), "nodes", <<>>)

\* line 108: the logins, comma-joined, when content has assignees; "" otherwise
Assignees(content) ==
    IF "assignees" \in DOMAIN content
    THEN LET ns == NodesUnder(content, "assignees")
         IN Join(CommaSpace, [i \in DOMAIN ns |-> Login(ns[i])])
    ELSE EmptyStr

\* line 109: the label names, comma-joined, when content has labels; "" otherwise
Labels(content) ==
    IF "labels" \in DOMAIN content
    THEN LET ns == NodesUnder(content, "labels")
         IN Join(CommaSpace, [i \in DOMAIN ns |-> LabelName(ns[i])])
    ELSE EmptyStr

\* fv and fv.get("field", {}).get("name", "").lower() == "status"
IsStatusField(fv) ==
    /\ fv # EmptyDict
    /\ Lower(GetD(GetD(fv, "field", EmptyDict), "name", EmptyStr)) = StatusName

RECURSIVE StatusScanFirstWins(_, _)
\* the first status entry is kept: later ones no longer replace it
StatusScanFirstWins(fvs, status) ==
    IF fvs = <<>> THEN status
    ELSE StatusScanFirstWins(Tail(fvs),
                             IF status = None /\ IsStatusField(fvs[1])
                             THEN Get(fvs[1], "name") ELSE status)

RECURSIVE StatusScan(_, _)
\* the for loop over node["fieldValues"]["nodes"], status being the value so far
StatusScan(fvs, status) ==
    IF fvs = <<>> THEN status
    ELSE StatusScan(Tail(fvs),
                    IF IsStatusField(fvs[1]) THEN Get(fvs[1], "name") ELSE status)

\* the default title is the empty string
TitleOrEmpty(content) == GetD(content, "title", EmptyStr)

\* line 105
Title(content) == GetD(content, "title", NoTitle)

\* the timestamps of the item container are used, whatever the content says
TimestampOfContainer(content, node, key) == node[key]

\* lines 110-111: content.get(key, node[key])
Timestamp(content, node, key) == GetD(content, key, node[key])

Normalize(node) ==
    LET content == node["content"]   \* node["content"] or {}: None is the empty dict
    IN [title |-> Title(content),
        number |-> Get(content, "number"),
        url |-> Get(content, "url"),
        assignees |-> Assignees(content),
        labels |-> Labels(content),
        status |-> StatusScan(node["fieldValues"]["nodes"], None),
        created_at |-> Timestamp(content, node, "createdAt"),
        updated_at |-> Timestamp(content, node, "updatedAt")]

(***************************************************************************)
(* The upstream: item nodes, cursors and responses                         *)
(***************************************************************************)
StatusField(fieldName, value) == [name |-> value, field |-> [name |-> fieldName]]

\* an item whose content is null; its status field is spelled "Status"
NullNode ==
    [id |-> "I_null", createdAt |-> 24 * 3 + 5, updatedAt |-> 24 * 4,
     content |-> None,
     fieldValues |-> [nodes |-> <<StatusField(<<"S", "t", "a", "t", "u", "s">>, Closed)>>]]

\* a DraftIssue: title and its own timestamps only, no status value
DraftNode ==
    [id |-> "I_draft", createdAt |-> 24 * 9, updatedAt |-> 24 * 9 + 1,
     content |-> [title |-> <<"X">>, createdAt |-> 24 * 5, updatedAt |-> 24 * 6 + 2],
     fieldValues |-> [nodes |-> <<EmptyDict>>]]

\* an Issue with two assignees and one label; it has two status values, and
\* values of other fields around them
IssueNode ==
    [id |-> "I_issue", createdAt |-> 24 * 8, updatedAt |-> 24 * 8,
     content |-> [title |-> <<"Y">>, number |-> 7, url |-> <<"u", "7">>,
                  assignees |-> [nodes |-> <<[login |-> <<"a", "l">>], [login |-> <<"b">>]>>],
                  labels |-> [nodes |-> <<[name |-> <<"x">>]>>],
                  createdAt |-> 24 * 7, updatedAt |-> 24 * 7 + 3],
     fieldValues |-> [nodes |-> <<EmptyDict,
                                  StatusField(<<"S", "T", "A", "T", "U", "S">>,
                                              <<"T", "o", "d", "o">>),
                                  StatusField(StatusName, Done),
                                  StatusField(<<"P", "r", "i", "o">>, <<"H", "i">>),
                                  EmptyDict>>]]

\* a PullRequest with no assignee and no label, and a field that is not the status
PullNode ==
    [id |-> "I_pull", createdAt |-> 24 * 2, updatedAt |-> 24 * 2 + 7,
     content |-> [title |-> <<"Z">>, number |-> 8, url |-> <<"u", "8">>,
                  assignees |-> [nodes |-> <<>>],
                  labels |-> [nodes |-> <<>>],
                  createdAt |-> 24 * 1, updatedAt |-> 24 * 2 + 6],
     fieldValues |-> [nodes |-> <<StatusField(<<"P", "r", "i", "o">>, <<"H", "i">>)>>]]

\* an open Issue with one assignee; its status field is spelled "STATUS"
TodoNode ==
    [id |-> "I_todo", createdAt |-> 24 * 20, updatedAt |-> 24 * 30 + 1,
     content |-> [title |-> <<"T">>, number |-> 9, url |-> <<"u", "9">>,
                  assignees |-> [nodes |-> <<[login |-> <<"b">>]>>],
                  labels |-> [nodes |-> <<>>],
                  createdAt |-> 24 * 20 + 4, updatedAt |-> 24 * 30],
     fieldValues |-> [nodes |-> <<StatusField(<<"S", "T", "A", "T", "U", "S">>,
                                              <<"T", "o", "d", "o">>)>>]]

\* a PullRequest closed a day before the metrics pass
MergedNode ==
    [id |-> "I_merged", createdAt |-> 24 * 3, updatedAt |-> 24 * 35 + 1,
     content |-> [title |-> <<"M">>, number |-> 10, url |-> <<"u", "1", "0">>,
                  assignees |-> [nodes |-> <<[login |-> <<"a", "l">>]>>],
                  labels |-> [nodes |-> <<[name |-> <<"x">>], [name |-> <<"y">>]>>],
                  createdAt |-> 24 * 3, updatedAt |-> 24 * 35 + 1],
     fieldValues |-> [nodes |-> <<StatusField(StatusName, Closed)>>]]

ProjectIds == {"PVT_a", "PVT_b"}

\* the items of each project on the upstream
Board(id) == IF id = "PVT_a" THEN {NullNode, DraftNode} ELSE {IssueNode, PullNode}

RECURSIVE SeqsUpTo(_, _)
\* the sequences over S of length at most n
SeqsUpTo(S, n) ==
    IF n = 0 THEN {<<>>}
    ELSE LET shorter == SeqsUpTo(S, n - 1)
         IN shorter \cup {Append(q, x) : q \in {r \in shorter : Len(r) = n - 1}, x \in S}

PageBody(nodes, hasNext, endCursor) ==
    [data |-> [node |-> [items |->
        [nodes |-> nodes,
         pageInfo |-> [hasNextPage |-> hasNext, endCursor |-> endCursor]]]]]

\* the continuation token of the k-th page: opaque to the client, it names
\* the position the next page resumes from
EndCursor(k) == Some(k)

\* HTTP 200 with the k-th well-formed page of the requested project; a page
\* that announces a next page carries the cursor to continue from, and only
\* an empty last page carries none
OkResponses(request, k, mayContinue) ==
    {[status_code |-> 200,
      json |-> PageBody(ns, h, IF h \/ ns # <<>> THEN EndCursor(k) ELSE None)] :
        ns \in SeqsUpTo(Board(request.projectId), MaxPageSize),
        h \in (IF mayContinue THEN BOOLEAN ELSE {FALSE})}

\* non-success transport status, whatever the body
FailedResponses(request) ==
    {[status_code |-> s, json |-> b] :
        s \in {401, 502},
        b \in {EmptyDict} \cup
              {PageBody(<<n>>, FALSE, None) : n \in Board(request.projectId)}}

\* HTTP 200 whose body lacks the nested data/node/items shape
MalformedResponses(request) ==
    {[status_code |-> 200, json |-> b] :
        b \in {[errors |-> <<"e">>],
               [data |-> None],
               [data |-> [node |-> None]]}
              \cup {[data |-> [node |-> [items |-> [nodes |-> <<n>>]]]] :
                        n \in Board(request.projectId)}}

(***************************************************************************)
(* fetch_github_project_items.py                                           *)
(***************************************************************************)
RECURSIVE HasPath(_, _)
\* whether d[path[1]][path[2]]... evaluates without KeyError / TypeError
HasPath(d, path) ==
    \/ path = <<>>
    \/ /\ path[1] \in DOMAIN d
       /\ HasPath(d[path[1]], Tail(path))

ItemsPath == <<"data", "node", "items">>

\* run_query raises on a non-200 status
RunQueryRaises(resp) == resp.status_code # 200

\* the cursor is never sent: every request asks for the first page
QueryVariablesFirstPage == [projectId |-> project_id[1], cursor |-> None]

\* line 100: the variables of the next items query
QueryVariables == [projectId |-> project_id[1], cursor |-> cursor]

RECURSIVE ExtendItemsDedup(_, _)
\* a record equal to one already collected is skipped
ExtendItemsDedup(its, nodes) ==
    IF nodes = <<>> THEN its
    ELSE LET r == Normalize(nodes[1])
         IN ExtendItemsDedup(IF \E i \in DOMAIN its : its[i] = r THEN its
                              ELSE Append(its, r),
                             Tail(nodes))

\* lines 103-126: the page's nodes appended to items, in order
ExtendItems(its, nodes) == its \o [i \in DOMAIN nodes |-> Normalize(nodes[i])]

\* the client gives up after its second page
LoopContinuesCapped(page_info) == page_info["hasNextPage"] /\ Len(received) < 1

\* lines 128-130: whether the loop goes round again
LoopContinues(page_info) == page_info["hasNextPage"]

\* the error is swallowed and what was collected so far is returned
RaisedReturnsPartial(its) ==
    [pc |-> "returned", items |-> its, cursor |-> cursor, result |-> Some(its)]

\* an exception leaves get_all_project_items and main: nothing is returned
Raised(its) == [pc |-> "raised", items |-> its, cursor |-> cursor, result |-> None]

\* lines 101-131 on the response resp: where the run stands afterwards
Outcome(resp) ==
    IF RunQueryRaises(resp) \/ ~HasPath(resp.json, Append(ItemsPath, "nodes"))
    THEN Raised(items)
    ELSE LET page == resp.json["data"]["node"]["items"]
             its == ExtendItems(items, page["nodes"])
         IN IF ~HasPath(page, <<"pageInfo", "hasNextPage">>)
            THEN Raised(its)
            ELSE IF ~LoopContinues(page["pageInfo"])
            THEN [pc |-> "returned", items |-> its, cursor |-> cursor,
                  result |-> Some(its)]
            ELSE IF ~HasPath(page, <<"pageInfo", "endCursor">>)
            THEN Raised(its)
            ELSE [pc |-> "loop", items |-> its,
                  cursor |-> page["pageInfo"]["endCursor"], result |-> None]

\* DataFrame(items).to_csv: one row per record; None and "" are both written
\* as an empty field
CsvText(opt) == IF opt = None THEN EmptyStr ELSE opt[1]
ToCsvRow(r) ==
    [title |-> r.title, number |-> r.number, url |-> CsvText(r.url),
     assignees |-> r.assignees, labels |-> r.labels, status |-> CsvText(r.status),
     created_at |-> r.created_at, updated_at |-> r.updated_at]
ToCsv(its) == [i \in DOMAIN its |-> ToCsvRow(its[i])]

FetchInit ==
    /\ pc = "main"
    /\ project_id = None
    /\ cursor = None
    /\ items = <<>>
    /\ sent = <<>>
    /\ received = <<>>
    /\ result = None
    /\ csv = None

\* main, line 135: get_project_id returns the id, or its query raises
GetProjectId ==
    /\ pc = "main"
    /\ \/ \E id \in ProjectIds : project_id' = Some(id) /\ pc' = "loop"
       \/ project_id' = project_id /\ pc' = "raised"
    /\ UNCHANGED <<cursor, items, sent, received, result, csv, dashVars>>

\* lines 100-101: post the items query
SendItemsQuery ==
    /\ pc = "loop"
    /\ sent' = Append(sent, QueryVariables)
    /\ pc' = "await"
    /\ UNCHANGED <<project_id, cursor, items, received, result, csv, dashVars>>

HandleResponse(resp) ==
    LET o == Outcome(resp)
    IN /\ received' = Append(received, resp)
       /\ pc' = o.pc
       /\ items' = o.items
       /\ cursor' = o.cursor
       /\ result' = o.result
       /\ UNCHANGED <<project_id, sent, csv, dashVars>>

RecvPage ==
    /\ pc = "await"
    /\ \E resp \in OkResponses(sent[Len(sent)], Len(sent), Len(sent) < MaxPages) :
           HandleResponse(resp)

RecvTransportError ==
    /\ pc = "await"
    /\ \E resp \in FailedResponses(sent[Len(sent)]) : HandleResponse(resp)

RecvMalformed ==
    /\ pc = "await"
    /\ \E resp \in MalformedResponses(sent[Len(sent)]) : HandleResponse(resp)

\* main, lines 139-143: the DataFrame of the returned items written as CSV
SaveCsv ==
    /\ pc = "returned"
    /\ csv' = Some(ToCsv(result[1]))
    /\ pc' = "done"
    /\ UNCHANGED <<project_id, cursor, items, sent, received, result, dashVars>>

DashIdle ==
    /\ dpc = "idle"
    /\ df = None
    /\ start_date = 0
    /\ end_date = 0
    /\ filtered_df = <<>>
    /\ total_items = 0
    /\ completed_items = <<>>
    /\ completion_rate = [num |-> 0, den |-> 1]
    /\ assignee_status = <<>>
    /\ pivot = <<>>
    /\ now = 0
    /\ stale = <<>>
    /\ recently_closed = <<>>
    /\ trend_df = <<>>

Init == FetchInit /\ DashIdle

Next ==
    \/ GetProjectId
    \/ SendItemsQuery
    \/ RecvPage
    \/ RecvTransportError
    \/ RecvMalformed
    \/ SaveCsv

Spec == Init /\ [][Next]_vars

(***************************************************************************)
(* dashboard.py                                                            *)
(***************************************************************************)
\* the items a persisted snapshot may hold
SnapshotNodes == {NullNode, DraftNode, IssueNode, PullNode, TodoNode, MergedNode}

\* the wall-clock instants at which the metrics pass may run
Nows == {24 * 36 + 7, 24 * 38 + 3}

\* the CSV files fetch_github_project_items.py can have written
SnapshotFiles ==
    {ToCsv([i \in DOMAIN ns |-> Normalize(ns[i])]) : ns \in SeqsUpTo(SnapshotNodes, MaxRows)}

\* line 16: the texts read_csv takes for a missing value
NaValues == {EmptyStr, NanStr, <<"N", "A">>, <<"n", "u", "l", "l">>}
ReadField(text) == IF text \in NaValues THEN None ELSE Some(text)

\* line 16: read_csv; every row gets its position as index
ReadCsv(file) ==
    [i \in DOMAIN file |->
        [index |-> i,
         title |-> ReadField(file[i].title),
         number |-> file[i].number,
         url |-> ReadField(file[i].url),
         assignees |-> ReadField(file[i].assignees),
         labels |-> ReadField(file[i].labels),
         status |-> ReadField(file[i].status),
         created_at |-> file[i].created_at,
         updated_at |-> file[i].updated_at]]

\* .dt.date / Timedelta.days: whole days, rounded down
HoursPerDay == 24
DateOf(t) == t \div HoursPerDay
DaysOf(delta) == delta \div HoursPerDay

\* str(x) of a cell: a missing value prints as "nan"
Str(cell) == IF cell = None THEN NanStr ELSE cell[1]

\* line 43
done_statuses == <<Done, Closed>>
IsIn(x, list) == \E i \in DOMAIN list : x = Some(list[i])
IsDone(row) == IsIn(row.status, done_statuses)

\* lines 33-34
DateFiltered(frame, start, end) ==
    LET InRange(row) == DateOf(row.created_at) >= start /\ DateOf(row.created_at) <= end
    IN SelectSeq(frame, InRange)

\* the completed subset is taken from the whole snapshot
CompletedItemsOfSnapshot(filtered, whole) == SelectSeq(whole, IsDone)

\* line 45: completed_items = filtered_df[filtered_df["status"].isin(done_statuses)]
CompletedItems(filtered, whole) == SelectSeq(filtered, IsDone)

\* the rate is computed without looking at total_items
CompletionRateUnguarded(ncompleted, total) == [num |-> ncompleted * 100, den |-> total]

\* line 49: the rate as the exact fraction num / den
CompletionRate(ncompleted, total) ==
    IF total > 0 THEN [num |-> ncompleted * 100, den |-> total]
    ELSE [num |-> 0, den |-> 1]

\* lines 55-56: the completion_days column
WithCompletionDays(frame) ==
    [i \in DOMAIN frame |->
        [index |-> frame[i].index, title |-> frame[i].title,
         number |-> frame[i].number, url |-> frame[i].url,
         assignees |-> frame[i].assignees, labels |-> frame[i].labels,
         status |-> frame[i].status, created_at |-> frame[i].created_at,
         updated_at |-> frame[i].updated_at,
         completion_days |-> DaysOf(frame[i].updated_at - frame[i].created_at)]]

\* the calendar: hour 0 of the model is 2024-01-26 00:00
IsLeap(y) == (y % 4 = 0 /\ y % 100 # 0) \/ y % 400 = 0
DaysInMonth(y, m) ==
    IF m = 2 THEN (IF IsLeap(y) THEN 29 ELSE 28)
    ELSE IF m \in {4, 6, 9, 11} THEN 30 ELSE 31

RECURSIVE YearMonth(_, _, _)
\* the <<year, month>> of the day d days after the first of month m of year y
YearMonth(y, m, d) ==
    IF d < DaysInMonth(y, m) THEN <<y, m>>
    ELSE YearMonth(IF m = 12 THEN y + 1 ELSE y, IF m = 12 THEN 1 ELSE m + 1,
                   d - DaysInMonth(y, m))

Digits == <<"0", "1", "2", "3", "4", "5", "6", "7", "8", "9">>
DigitChar(n) == Digits[n + 1]

\* str(period): "YYYY-MM"
PeriodStr(ym) ==
    <<DigitChar(ym[1] \div 1000), DigitChar((ym[1] \div 100) % 10),
      DigitChar((ym[1] \div 10) % 10), DigitChar(ym[1] % 10), "-",
      DigitChar(ym[2] \div 10), DigitChar(ym[2] % 10)>>

\* .dt.to_period("M").astype(str)
PeriodM(t) == PeriodStr(YearMonth(2024, 1, DateOf(t) + 25))

\* the order of the characters of a month string
CharRank(c) == IF c = "-" THEN 0 ELSE CHOOSE n \in 1..10 : Digits[n] = c

RECURSIVE StrLess(_, _)
\* a < b on strings
StrLess(a, b) ==
    IF b = <<>> THEN FALSE
    ELSE IF a = <<>> THEN TRUE
    ELSE IF a[1] # b[1] THEN CharRank(a[1]) < CharRank(b[1])
    ELSE StrLess(Tail(a), Tail(b))

RECURSIVE SortIndex(_)
\* the labels S in ascending order
SortIndex(S) ==
    IF S = {} THEN <<>>
    ELSE LET least == CHOOSE x \in S : \A y \in S \ {x} : StrLess(x, y)
         IN <<least>> \o SortIndex(S \ {least})

\* line 65: the created_month column
WithCreatedMonth(frame) ==
    [i \in DOMAIN frame |->
        [index |-> frame[i].index, title |-> frame[i].title,
         number |-> frame[i].number, url |-> frame[i].url,
         assignees |-> frame[i].assignees, labels |-> frame[i].labels,
         status |-> frame[i].status, created_at |-> frame[i].created_at,
         updated_at |-> frame[i].updated_at,
         created_month |-> PeriodM(frame[i].created_at)]]

\* lines 65, 68: the month columns
CreatedMonths(frame) == [i \in DOMAIN frame |-> frame[i].created_month]
ClosedMonths(frame) == [i \in DOMAIN frame |-> PeriodM(frame[i].updated_at)]

\* lines 66, 69: value_counts(): the count of a label, NaN for a label not there
ValueCount(column, label) ==
    IF \E i \in DOMAIN column : column[i] = label
    THEN Some(Cardinality({i \in DOMAIN column : column[i] = label}))
    ELSE None

\* line 73: fillna(0)
FillNa(x) == IF x = None THEN 0 ELSE x[1]

\* only the months of the created series get a row
TrendIndexOfCreated(created, closed) ==
    SortIndex({created[i] : i \in DOMAIN created})

\* lines 66-72: the index of the frame built from the two sorted series
TrendIndex(created, closed) ==
    SortIndex({created[i] : i \in DOMAIN created} \cup {closed[i] : i \in DOMAIN closed})

\* lines 70-73
TrendFrame(created, closed) ==
    LET idx == TrendIndex(created, closed)
    IN [k \in DOMAIN idx |->
           [Month |-> idx[k],
            Created |-> FillNa(ValueCount(created, idx[k])),
            Closed |-> FillNa(ValueCount(closed, idx[k]))]]

Open == <<"O", "p", "e", "n">>

RECURSIVE StrippedTokens(_)
\* [a.strip() for a in pieces if a.strip()]
StrippedTokens(pieces) ==
    IF pieces = <<>> THEN <<>>
    ELSE (IF Strip(pieces[1]) # EmptyStr THEN <<Strip(pieces[1])>> ELSE <<>>)
         \o StrippedTokens(Tail(pieces))

\* line 83
AssigneesOf(row) == StrippedTokens(Split(Str(row.assignees)))

\* lines 84-88: the entries of one row
RowEntries(row) ==
    LET assignees == AssigneesOf(row)
    IN [k \in DOMAIN assignees |->
           [Assignee |-> assignees[k],
            Status |-> IF IsDone(row) THEN Closed ELSE Open]]

RECURSIVE AssigneeStatus(_)
\* lines 81-88: the loop over filtered_df.iterrows()
AssigneeStatus(frame) ==
    IF frame = <<>> THEN <<>>
    ELSE RowEntries(frame[1]) \o AssigneeStatus(Tail(frame))

\* line 91: the counts of the (Assignee, Status) pairs, 0 where a pair is missing
PivotTable(entries) ==
    LET rows == {entries[i].Assignee : i \in DOMAIN entries}
        cols == {entries[i].Status : i \in DOMAIN entries}
    IN [a \in rows |-> [b \in cols |->
           Cardinality({i \in DOMAIN entries :
                           entries[i].Assignee = a /\ entries[i].Status = b})]]

StaleDays == 30

\* open and closed items alike are listed
StaleAnyStatus(frame, t) ==
    LET Keep(row) == DaysOf(t - row.updated_at) > StaleDays
    IN SelectSeq(frame, Keep)

\* line 123
Stale(frame, t) ==
    LET Keep(row) == ~IsDone(row) /\ DaysOf(t - row.updated_at) > StaleDays
    IN SelectSeq(frame, Keep)

\* line 131
RecentlyClosed(completed, t) ==
    LET Keep(row) == DaysOf(t - row.updated_at) <= StaleDays
    IN SelectSeq(completed, Keep)

\* the fetch script has exited; the file it wrote, if any, is on disk
DashInit ==
    /\ pc = "exited"
    /\ project_id = None
    /\ cursor = None
    /\ items = <<>>
    /\ sent = <<>>
    /\ received = <<>>
    /\ result = None
    /\ csv \in {None} \cup {Some(f) : f \in SnapshotFiles}
    /\ DashIdle

\* lines 11-19: no file, or a file read_csv cannot parse (no column at all)
LoadNothing ==
    /\ dpc = "idle"
    /\ csv = None \/ csv = Some(<<>>)
    /\ dpc' = IF csv = None THEN "no_file" ELSE "crashed"
    /\ UNCHANGED <<fetchVars, df, start_date, end_date, filtered_df, total_items,
                   completed_items, completion_rate, assignee_status, pivot, now,
                   stale, recently_closed, trend_df>>

\* lines 11-16
LoadCsv ==
    /\ dpc = "idle"
    /\ csv # None
    /\ csv[1] # <<>>
    /\ df' = Some(ReadCsv(csv[1]))
    /\ dpc' = "filter"
    /\ UNCHANGED <<fetchVars, start_date, end_date, filtered_df, total_items,
                   completed_items, completion_rate, assignee_status, pivot, now,
                   stale, recently_closed, trend_df>>

MinOf(S) == CHOOSE x \in S : \A y \in S : x <= y
MaxOf(S) == CHOOSE x \in S : \A y \in S : x >= y

\* lines 25-37: the user picks a range within [min_date, max_date]
DateFilter ==
    /\ dpc = "filter"
    /\ LET dates == {DateOf(df[1][i].created_at) : i \in DOMAIN df[1]}
           min_date == MinOf(dates)
           max_date == MaxOf(dates)
           offered == {d \in dates \cup {d + 1 : d \in dates} :
                          d >= min_date /\ d <= max_date}
       IN \E s \in offered, e \in offered :
              /\ s <= e
              /\ start_date' = s
              /\ end_date' = e
              /\ filtered_df' = DateFiltered(df[1], s, e)
    /\ dpc' = "completion"
    /\ UNCHANGED <<fetchVars, df, total_items, completed_items, completion_rate,
                   assignee_status, pivot, now, stale, recently_closed, trend_df>>

\* lines 43-60
Completion ==
    /\ dpc = "completion"
    /\ total_items' = Len(filtered_df)
    /\ LET completed == CompletedItems(filtered_df, df[1])
       IN /\ completion_rate' = CompletionRate(Len(completed), Len(filtered_df))
          /\ completed_items' = IF completed # <<>> THEN WithCompletionDays(completed)
                                ELSE completed
    /\ dpc' = "trend"
    /\ UNCHANGED <<fetchVars, df, start_date, end_date, filtered_df,
                   assignee_status, pivot, now, stale, recently_closed, trend_df>>

\* lines 65-73
Trend ==
    /\ dpc = "trend"
    /\ filtered_df' = WithCreatedMonth(filtered_df)
    /\ trend_df' = TrendFrame(CreatedMonths(filtered_df'),
                              ClosedMonths(SelectSeq(filtered_df', IsDone)))
    /\ dpc' = "workload"
    /\ UNCHANGED <<fetchVars, df, start_date, end_date, total_items,
                   completed_items, completion_rate, assignee_status, pivot, now,
                   stale, recently_closed>>

\* lines 80-95
Workload ==
    /\ dpc = "workload"
    /\ assignee_status' = AssigneeStatus(filtered_df)
    /\ pivot' = IF assignee_status' # <<>> THEN PivotTable(assignee_status') ELSE pivot
    /\ dpc' = "flags"
    /\ UNCHANGED <<fetchVars, df, start_date, end_date, filtered_df, total_items,
                   completed_items, completion_rate, now, stale, recently_closed, trend_df>>

\* lines 122-131: now is read once and both lists are computed against it
FlagLists ==
    /\ dpc = "flags"
    /\ \E t \in Nows :
           /\ now' = t
           /\ stale' = Stale(filtered_df, t)
           /\ recently_closed' = RecentlyClosed(completed_items, t)
    /\ dpc' = "loaded"
    /\ UNCHANGED <<fetchVars, df, start_date, end_date, filtered_df, total_items,
                   completed_items, completion_rate, assignee_status, pivot, trend_df>>

DashNext ==
    \/ LoadNothing
    \/ LoadCsv
    \/ DateFilter
    \/ Completion
    \/ Trend
    \/ Workload
    \/ FlagLists

DashSpec == DashInit /\ [][DashNext]_vars

(***************************************************************************)
(* Properties of the ingestion run                                         *)
(***************************************************************************)
\* whether response r carries a well-formed page
IsPage(r) ==
    /\ r.status_code = 200
    /\ HasPath(r.json, Append(ItemsPath, "nodes"))
    /\ HasPath(r.json, <<"data", "node", "items", "pageInfo", "hasNextPage">>)
NodesOf(r) == r.json["data"]["node"]["items"]["nodes"]
PageInfoOf(r) == r.json["data"]["node"]["items"]["pageInfo"]

RECURSIVE NodesBefore(_)
\* how many item nodes the pages before the k-th carried
NodesBefore(k) == IF k <= 1 THEN 0 ELSE NodesBefore(k - 1) + Len(NodesOf(received[k - 1]))

\* C1: the list get_all_project_items returns holds exactly one record per
\* item node of every page, in page order and then within-page order: its
\* length is the sum of the page sizes, and a node served on two pages is
\* there twice.
C1_OneRecordPerNode ==
    result # None =>
        /\ Len(result[1]) = NodesBefore(Len(received) + 1)
        /\ \A k \in DOMAIN received : \A j \in DOMAIN NodesOf(received[k]) :
               result[1][NodesBefore(k) + j] = Normalize(NodesOf(received[k])[j])

\* two pages of two different nodes each, one node being on both pages
C1_Witness ==
    /\ result # None
    /\ Len(received) >= 2
    /\ Len(NodesOf(received[1])) = 2
    /\ Len(NodesOf(received[2])) = 2
    /\ NodesOf(received[1])[1] # NodesOf(received[1])[2]
    /\ NodesOf(received[1])[2] = NodesOf(received[2])[1]
    /\ Len(result[1]) >= 4
    /\ result[1][2] = result[1][3]

\* C2: requests go out one at a time, each after the response to the one
\* before; the first carries cursor null and every later one the endCursor of
\* the response just before it, which is not null; all carry the project id.
C2_CursorChain ==
    /\ Len(sent) - Len(received) \in {0, 1}
    /\ (Len(sent) = Len(received) + 1) <=> (pc = "await")
    /\ \A i \in DOMAIN sent :
        /\ sent[i].projectId = project_id[1]
        /\ (i = 1) => sent[i].cursor = None
        /\ (i > 1) => /\ sent[i].cursor = PageInfoOf(received[i - 1])["endCursor"]
                      /\ sent[i].cursor # None
                      /\ \A j \in 1..(i - 2) :
                            sent[i].cursor # PageInfoOf(received[j])["endCursor"]

\* a third request is out, carrying the second page's cursor
C2_Witness ==
    /\ Len(sent) = 3
    /\ sent[3].cursor = PageInfoOf(received[2])["endCursor"]
    /\ sent[3].cursor # sent[2].cursor

\* C3: the loop ends at the first page whose hasNextPage is false: nothing is
\* requested after it, its items are in the returned list, and as long as the
\* pages announce a next page the client keeps fetching, whatever their number.
C3_StopsAtLastPage ==
    /\ \A i \in DOMAIN received :
           (IsPage(received[i]) /\ ~PageInfoOf(received[i])["hasNextPage"]) =>
               /\ i = Len(received)
               /\ Len(sent) = i
               /\ pc \in {"returned", "done"}
    /\ \A i \in DOMAIN received :
           (IsPage(received[i]) /\ PageInfoOf(received[i])["hasNextPage"]) =>
               /\ (i = Len(received) => result = None /\ pc \in {"loop", "await"})
               /\ (i < Len(received) => Len(sent) > i)
    /\ result # None =>
           /\ received # <<>>
           /\ IsPage(received[Len(received)])
           /\ ~PageInfoOf(received[Len(received)])["hasNextPage"]
           /\ LET last == NodesOf(received[Len(received)])
                  n == Len(result[1])
              IN /\ n >= Len(last)
                 /\ \A j \in DOMAIN last :
                        result[1][n - Len(last) + j] = Normalize(last[j])

\* the run returned after MaxPages pages, the last of them not empty
C3_Witness ==
    /\ pc = "done"
    /\ Len(received) = MaxPages
    /\ NodesOf(received[MaxPages]) # <<>>

\* C4: a failed request (non-200 status, or a body lacking the nested shape)
\* ends the run with an error, on whichever page it happens: nothing is
\* returned, no CSV file is written and no further request is made.
C4_FailureAborts ==
    /\ \A i \in DOMAIN received :
           ~IsPage(received[i]) =>
               /\ pc = "raised"
               /\ i = Len(received)
               /\ Len(sent) = i
    /\ pc = "raised" => result = None /\ csv = None
    /\ csv # None => pc = "done" /\ result # None /\ csv = Some(ToCsv(result[1]))

\* the second request failed after a first page had been collected
C4_Witness ==
    /\ pc = "raised"
    /\ Len(received) = 2
    /\ received[2].status_code # 200
    /\ items # <<>>

\* the second response was malformed after a first page had been collected
C4_WitnessMalformed ==
    /\ pc = "raised"
    /\ Len(received) = 2
    /\ received[2].status_code = 200
    /\ items # <<>>

RECURSIVE CollectedNodes(_)
\* the nodes of the first k responses that reached the normalizing loop
CollectedNodes(k) ==
    IF k = 0 THEN <<>>
    ELSE CollectedNodes(k - 1) \o
         (IF received[k].status_code = 200
             /\ HasPath(received[k].json, Append(ItemsPath, "nodes"))
          THEN NodesOf(received[k]) ELSE <<>>)

\* C5: a node whose content is null becomes a record with title "(No title)",
\* no number, no url, no assignee, no label and the container's timestamps.
C5_NullContent ==
    LET nodes == CollectedNodes(Len(received))
    IN /\ Len(items) = Len(nodes)
       /\ \A i \in DOMAIN nodes :
              nodes[i]["content"] = None =>
                  /\ items[i].title = NoTitle
                  /\ items[i].number = None
                  /\ items[i].url = None
                  /\ items[i].assignees = EmptyStr
                  /\ items[i].labels = EmptyStr
                  /\ items[i].created_at = nodes[i]["createdAt"]
                  /\ items[i].updated_at = nodes[i]["updatedAt"]

C5_Witness ==
    /\ Len(received) >= 1
    /\ IsPage(received[1])
    /\ NodesOf(received[1]) # <<>>
    /\ NodesOf(received[1])[1]["content"] = None
    /\ items # <<>>
    /\ items[1].title = NoTitle

\* C6: a draft item {title, createdAt, updatedAt} with no status value becomes
\* {title, number null, url null, no assignee, no label, status null} with the
\* content's own timestamps, also when the container's differ.
C6_DraftItem ==
    LET nodes == CollectedNodes(Len(received))
    IN \A i \in DOMAIN nodes :
           LET c == nodes[i]["content"]
               fvs == nodes[i]["fieldValues"]["nodes"]
           IN (/\ DOMAIN c = {"title", "createdAt", "updatedAt"}
               /\ \A k \in DOMAIN fvs : fvs[k] = EmptyDict) =>
                  items[i] = [title |-> c["title"], number |-> None, url |-> None,
                              assignees |-> EmptyStr, labels |-> EmptyStr,
                              status |-> None,
                              created_at |-> c["createdAt"],
                              updated_at |-> c["updatedAt"]]

C6_Witness ==
    /\ Len(received) >= 1
    /\ IsPage(received[1])
    /\ NodesOf(received[1]) # <<>>
    /\ LET n == NodesOf(received[1])[1]
       IN /\ DOMAIN n["content"] = {"title", "createdAt", "updatedAt"}
          /\ n["createdAt"] # n["content"]["createdAt"]
          /\ n["updatedAt"] # n["content"]["updatedAt"]
          /\ items # <<>>
          /\ items[1].created_at = n["content"]["createdAt"]
          /\ items[1].status = None

(***************************************************************************)
(* Properties of the metrics pass                                          *)
(***************************************************************************)
\* the rows of the snapshot created within [start_date, end_date]
FilteredSet ==
    {i \in DOMAIN df[1] : /\ DateOf(df[1][i].created_at) >= start_date
                          /\ DateOf(df[1][i].created_at) <= end_date}
\* those of them whose status is "Done" or "Closed"
CompletedSet == {i \in FilteredSet : df[1][i].status \in {Some(Done), Some(Closed)}}
IndicesOf(frame) == {frame[k].index : k \in DOMAIN frame}
RateComputed == dpc \in {"trend", "workload", "flags", "loaded"}

\* C7: the completion rate is the number of "Done" or "Closed" records of the
\* date-filtered set over the size of that set, times 100; it is 0 when the
\* set is empty, and always within 0..100.
C7_CompletionRate ==
    RateComputed =>
        /\ completion_rate.den > 0
        /\ total_items = Cardinality(FilteredSet)
        /\ completion_rate.num * Cardinality(FilteredSet)
               = 100 * Cardinality(CompletedSet) * completion_rate.den
        /\ (FilteredSet = {}) => completion_rate.num = 0
        /\ completion_rate.num >= 0
        /\ completion_rate.num <= 100 * completion_rate.den

\* the chosen range holds no record of a snapshot that is not empty
C7_Witness ==
    /\ dpc = "loaded"
    /\ df # None
    /\ FilteredSet = {}
    /\ completion_rate.num = 0

\* C8 as stated: every completed record of the snapshot updated at most 30
\* days before now is in the recently-closed list, whatever its creation date.
C8_AsStated ==
    dpc = "loaded" =>
        \A i \in DOMAIN df[1] :
            (/\ IsDone(df[1][i])
             /\ now - df[1][i].updated_at <= StaleDays * HoursPerDay)
                => i \in IndicesOf(recently_closed)

\* C8, amended: the recently-closed list is taken from the completed records
\* of the date-filtered set: a completed record updated at most 30 days before
\* now is in the list exactly when its creation date lies in
\* [start_date, end_date], and the list holds completed records of the
\* date-filtered set only.
C8_RecentlyClosedIsDateFiltered ==
    dpc = "loaded" =>
        /\ \A i \in DOMAIN df[1] :
               (/\ IsDone(df[1][i])
                /\ now - df[1][i].updated_at <= StaleDays * HoursPerDay)
                   => (i \in IndicesOf(recently_closed) <=> i \in FilteredSet)
        /\ IndicesOf(recently_closed) \subseteq CompletedSet

\* one recently completed record lies outside the range and is not listed,
\* another lies inside and is
C8_Witness ==
    /\ dpc = "loaded"
    /\ recently_closed # <<>>
    /\ \E i \in DOMAIN df[1] :
           /\ IsDone(df[1][i])
           /\ now - df[1][i].updated_at <= StaleDays * HoursPerDay
           /\ i \notin FilteredSet
           /\ i \notin IndicesOf(recently_closed)

\* the assignees of a record as the claim reads them: the trimmed, non-empty
\* comma-separated tokens of the field, none when the field is empty or missing
TokensOfField(row) ==
    IF row.assignees = None THEN <<>> ELSE StrippedTokens(Split(row.assignees[1]))
BucketOf(row) == IF row.status \in {Some(Done), Some(Closed)} THEN Closed ELSE Open
Cell(a, b) ==
    IF assignee_status # <<>> /\ a \in DOMAIN pivot /\ b \in DOMAIN pivot[a]
    THEN pivot[a][b] ELSE 0
\* one element per (record, token position) of the date-filtered set
TokenSlots ==
    UNION {{<<i, k>> : k \in DOMAIN TokensOfField(df[1][i])} : i \in FilteredSet}
WorkloadComputed == dpc \in {"flags", "loaded"}

\* C9: every record of the date-filtered set adds one to the cell
\* (a, bucket) for each token a of its assignees field, a record without
\* assignee adds nothing, and the cells sum to the number of tokens.
C9_WorkloadMatrix ==
    WorkloadComputed =>
        /\ Len(assignee_status) = Cardinality(TokenSlots)
        /\ \A a \in {assignee_status[k].Assignee : k \in DOMAIN assignee_status}
                    \cup {TokensOfField(df[1][sl[1]])[sl[2]] : sl \in TokenSlots} :
               \A b \in {Open, Closed} :
                   Cell(a, b) = Cardinality({sl \in TokenSlots :
                                    /\ TokensOfField(df[1][sl[1]])[sl[2]] = a
                                    /\ BucketOf(df[1][sl[1]]) = b})

\* C10: no record is in both the stale list and the recently-closed list of
\* a pass: both are computed against the one now of the pass, the stale
\* records are all outside the done set and the recently closed all inside.
C10_StaleRecentDisjoint ==
    dpc = "loaded" =>
        /\ IndicesOf(stale) \cap IndicesOf(recently_closed) = {}
        /\ \A k \in DOMAIN stale :
               /\ stale[k].status \notin {Some(Done), Some(Closed)}
               /\ DaysOf(now - stale[k].updated_at) > StaleDays
        /\ \A k \in DOMAIN recently_closed :
               /\ recently_closed[k].status \in {Some(Done), Some(Closed)}
               /\ DaysOf(now - recently_closed[k].updated_at) <= StaleDays

\* a pass that lists a stale record and a recently closed one
C10_Witness ==
    /\ dpc = "loaded"
    /\ stale # <<>>
    /\ recently_closed # <<>>

\* the calendar month of an instant as a number, months counted from year 0
MonthNumber(t) ==
    LET ym == YearMonth(2024, 1, DateOf(t) + 25) IN 12 * ym[1] + ym[2]
\* the instants the trend counts: creation of the records of the date-filtered
\* set, last update of its completed records
CreatedAtOf == [i \in FilteredSet |-> df[1][i].created_at]
ClosedAtOf == [i \in CompletedSet |-> df[1][i].updated_at]
TrendInstants == {CreatedAtOf[i] : i \in FilteredSet} \cup {ClosedAtOf[i] : i \in CompletedSet}
TrendComputed == dpc \in {"workload", "flags", "loaded"}

\* C11: the trend has one row for every month in which a record of the
\* date-filtered set was created or a completed one last updated, and for no
\* other month; Created and Closed are the counts of that month, 0 where the
\* month is missing from a series; the rows are in ascending month order.
C11_MonthlyTrend ==
    TrendComputed =>
        /\ Len(trend_df) = Cardinality({MonthNumber(t) : t \in TrendInstants})
        /\ \A t \in TrendInstants : \E k \in DOMAIN trend_df :
               /\ trend_df[k].Month = PeriodM(t)
               /\ trend_df[k].Created =
                      Cardinality({i \in FilteredSet :
                                      MonthNumber(CreatedAtOf[i]) = MonthNumber(t)})
               /\ trend_df[k].Closed =
                      Cardinality({i \in CompletedSet :
                                      MonthNumber(ClosedAtOf[i]) = MonthNumber(t)})
        /\ \A t1 \in TrendInstants, t2 \in TrendInstants :
               \A k \in DOMAIN trend_df, l \in DOMAIN trend_df :
                   (/\ trend_df[k].Month = PeriodM(t1)
                    /\ trend_df[l].Month = PeriodM(t2)
                    /\ MonthNumber(t1) < MonthNumber(t2)) => k < l

\* three months: records created in the first two, one closed in the first
\* and one in the third, where none was created
C11_Witness ==
    /\ dpc = "loaded"
    /\ Len(trend_df) = 3
    /\ trend_df[1].Created = 2 /\ trend_df[1].Closed = 1
    /\ trend_df[2].Created = 1 /\ trend_df[2].Closed = 0
    /\ trend_df[3].Created = 0 /\ trend_df[3].Closed = 1

\* "status" in any mix of upper and lower case
StatusUpper == <<"S", "T", "A", "T", "U", "S">>
IsStatusSpelling(name) ==
    /\ Len(name) = Len(StatusName)
    /\ \A j \in DOMAIN name : name[j] \in {StatusName[j], StatusUpper[j]}
\* the positions of the entries of fvs given for a field named status
StatusEntries(fvs) ==
    {k \in DOMAIN fvs : /\ fvs[k] # EmptyDict
                        /\ IsStatusSpelling(fvs[k]["field"]["name"])}
LastOf(S) == CHOOSE k \in S : \A l \in S : l <= k

\* C12: the status of a record is the name of the last entry of the item's
\* fieldValues whose field is named "status" in any letter case; entries of
\* other fields and empty entries change nothing, and the status is null when
\* no entry is for a status field.
C12_LastStatusWins ==
    LET nodes == CollectedNodes(Len(received))
    IN /\ Len(items) = Len(nodes)
       /\ \A i \in DOMAIN nodes :
              LET fvs == nodes[i]["fieldValues"]["nodes"]
              IN items[i].status =
                     IF StatusEntries(fvs) = {} THEN None
                     ELSE Some(fvs[LastOf(StatusEntries(fvs))]["name"])

\* the first record comes from a node with two status entries of different
\* values and spellings, followed by an entry of another field and an empty one
C12_Witness ==
    /\ Len(received) >= 1
    /\ IsPage(received[1])
    /\ NodesOf(received[1]) # <<>>
    /\ items # <<>>
    /\ LET fvs == NodesOf(received[1])[1]["fieldValues"]["nodes"]
           last == LastOf(StatusEntries(fvs))
       IN /\ Cardinality(StatusEntries(fvs)) = 2
          /\ \E k \in StatusEntries(fvs) :
                 /\ fvs[k]["name"] # fvs[last]["name"]
                 /\ fvs[k]["field"]["name"] # fvs[last]["field"]["name"]
          /\ last < Len(fvs) - 1
          /\ fvs[Len(fvs)] = EmptyDict
          /\ items[1].status = Some(fvs[last]["name"])

\* C13: the stale list is exactly the records of the date-filtered set whose
\* status is outside the done set (a null status included) and whose elapsed
\* time now - updated_at exceeds 30 days, counted to the hour: a record that
\* is not completed and was last updated 30 days and a few hours before now
\* is in the list.
C13_StaleList ==
    dpc = "loaded" =>
        IndicesOf(stale) =
            {i \in FilteredSet :
                 /\ df[1][i].status \notin {Some(Done), Some(Closed)}
                 /\ now - df[1][i].updated_at > StaleDays * HoursPerDay}

====
